---- MODULE Spec2Model ----
(***************************************************************************)
(* The judging core of the online judge: CodeExecutor (the Sanitizer and   *)
(* the Runner) of backend/app/services/executor.py.                        *)
(*                                                                         *)
(* A text is a sequence of symbols.  A symbol is a one-character string;   *)
(* the fixed messages of the program are kept as one symbol each.  An      *)
(* absent value (Python's None) is the text None.                          *)
(***************************************************************************)
EXTENDS Integers, Sequences, FiniteSets, TLC

VARIABLES
    code,               \* run's argument: the submitted source text
    test_cases,         \* run's argument: the sequence of ExecutorTestCase
    timeout_seconds,    \* CodeExecutor.timeout_seconds, in tenths of a second
    output_char_limit,  \* CodeExecutor.output_char_limit
    pc,                 \* position of the run call
    sanitized_code,     \* run's local: the result of _sanitize_code
    temp_dir,           \* the TemporaryDirectory: "none", "exists", "removed"
    solution_path,      \* content of temp_dir/solution.py, NoFile when there is none
    writes,             \* number of times solution.py was written
    results,            \* run's local list of ExecutorCaseResult
    next_case,          \* position of the for loop in test_cases
    procs,              \* the test-case positions whose child process is alive
    spawned,            \* the test-case positions a process was started for, in order
    outcomes,           \* what each finished child process did, in order
    raised,             \* the exception that ended run, NoError when none
    returned,           \* the list run returned, None until it returns
    dir_name,           \* the name mkdtemp gave the directory of this call, "none" before
    other,              \* a run call of another thread: its position, directory and file
    calls,              \* number of calls made so far, this one included
    prev,               \* what the call before this one was given and gave, NoPrev when none
    response,           \* what the endpoint answered, NoResponse until it answers
    db,                 \* the stored rows: submissions and execution_results
    request             \* the request being served: its path and its code_override

vars == <<code, test_cases, timeout_seconds, output_char_limit, pc, sanitized_code,
          temp_dir, solution_path, writes, results, next_case, procs, spawned, outcomes,
          raised, returned, dir_name, other, calls, prev, response, db, request>>

----------------------------------------------------------------------------
(* Bounds of the model *)

\* longest test-case list passed to run
MaxCases == 2
\* longest stream or expected output in the single-case specification
MaxStr == 2
\* longest padding in front of the statement of a code in the sanitizer specification
MaxPad == 2
\* longest test-case list in the specification of two calls in a row
MaxRepeatCases == 2
\* longest test-case list in the specification with fairness
MaxLiveCases == 2
\* longest test-case list in the specification of two concurrent calls
MaxConcCases == 2
\* most test cases of the problem in the specification of the stored rows
MaxStoreCases == 2
\* most test cases of the problem in the specification of the execute endpoint
MaxExecCases == 2
\* most test cases of the problem in the specification of two execute requests
MaxLeakCases == 1

----------------------------------------------------------------------------
(* Texts *)

None == <<"None">>
NoFile == <<"NoFile">>
NoError == [kind |-> "none"]
NoPrev == [test_cases |-> <<>>, outcomes |-> <<>>, returned |-> None, response |-> None]
NoSummary == [status |-> "none", passed_count |-> 0, failed_count |-> 0]
NoResponse == [status |-> "none", detail |-> "", results |-> <<>>, summary |-> NoSummary]
NoRows == [submissions |-> <<>>, execution_results |-> <<>>]
ExecuteRequest == [path |-> "execute", submission_id |-> 0, code_override |-> None]

\* the names mkdtemp may give a directory
DirNames == {"tmpa", "tmpb"}

\* another call that has not entered its with block
OtherIdle == [pc |-> "idle", dir |-> "none", file |-> NoFile, running |-> FALSE]

Whitespace == {" ", "\n", "\t"}

WordChars == {"i", "m", "p", "o", "r", "t", "f", "s", "u", "b", "c", "e", "x", "_", "a"}

IsSpace(c) == c \in Whitespace

IsWord(c) == c \in WordChars

Min(a, b) == IF a < b THEN a ELSE b

\* str.strip(): drop the leading and the trailing whitespace
Strip(s) ==
    LET keep == {i \in 1..Len(s) : ~IsSpace(s[i])}
    IN  IF keep = {} THEN <<>>
        ELSE LET lo == CHOOSE i \in keep : \A j \in keep : i <= j
                 hi == CHOOSE i \in keep : \A j \in keep : j <= i
             IN  SubSeq(s, lo, hi)

\* s[:n] for n >= 0
Prefix(s, n) == SubSeq(s, 1, Min(n, Len(s)))

\* the text w stands in s at position p
HasAt(s, p, w) ==
    /\ p >= 1
    /\ p + Len(w) - 1 <= Len(s)
    /\ \A k \in 1..Len(w) : s[p + k - 1] = w[k]

\* s[p..q-1] is whitespace only (\s* when q = p, \s+ when q > p)
AllSpace(s, p, q) == \A k \in p..(q - 1) : IsSpace(s[k])

\* ^ without re.MULTILINE: the start of the text only
AtTextStart(s, p) == p = 1

\* ^ under re.MULTILINE: the start of the text or just after a newline
AtLineStart(s, p) == p = 1 \/ (p - 1 <= Len(s) /\ s[p - 1] = "\n")

\* \b after a word character: the end of the text or a non-word character
WordEndsAt(s, p) == p > Len(s) \/ ~IsWord(s[p])

----------------------------------------------------------------------------
(* The Sanitizer *)

IMPORT_KW == <<"i", "m", "p", "o", "r", "t">>
FROM_KW == <<"f", "r", "o", "m">>
OS_MOD == <<"o", "s">>
SUBPROCESS_MOD == <<"s", "u", "b", "p", "r", "o", "c", "e", "s", "s">>
DUNDER_IMPORT == <<"_", "_", "i", "m", "p", "o", "r", "t", "_", "_">>

\* the five regular expressions: ^\s*<kw>\s+<mod>\b (MULTILINE) and __import__
BANNED_PATTERNS == <<
    [form |-> "statement", kw |-> IMPORT_KW, mod |-> OS_MOD],
    [form |-> "statement", kw |-> FROM_KW, mod |-> OS_MOD],
    [form |-> "statement", kw |-> IMPORT_KW, mod |-> SUBPROCESS_MOD],
    [form |-> "statement", kw |-> FROM_KW, mod |-> SUBPROCESS_MOD],
    [form |-> "anywhere", kw |-> DUNDER_IMPORT, mod |-> <<>>] >>

GUARD_PREFIX == <<"import sys\nsys.setrecursionlimit(1000)\n">>

EmptyCodeMessage == "Solution code cannot be empty"
RestrictedMessage == "Use of restricted modules or patterns is not allowed"
NoTestCasesMessage == "No test cases to execute"

ExecutionError(msg) == [kind |-> "ExecutionError", msg |-> msg]
SanitizationError(msg) == [kind |-> "SanitizationError", msg |-> msg]

\* SanitizationError is a subclass of ExecutionError
IsExecutionError(e) == e.kind \in {"ExecutionError", "SanitizationError"}

\* pattern.search(s)
Search(pattern, s) ==
    IF pattern.form = "anywhere"
    THEN \E p \in 1..Len(s) : HasAt(s, p, pattern.kw)
    ELSE \E p \in 1..Len(s) : \E q \in p..Len(s) :
            /\ AtLineStart(s, p)
            /\ AllSpace(s, p, q)
            /\ HasAt(s, q, pattern.kw)
            /\ \E t \in (q + Len(pattern.kw) + 1)..Len(s) :
                  /\ AllSpace(s, q + Len(pattern.kw), t)
                  /\ HasAt(s, t, pattern.mod)
                  /\ WordEndsAt(s, t + Len(pattern.mod))

\* _sanitize_code that checks the stripped code and returns the code as given
SanitizeCodeReturnsRaw(c) ==
    LET stripped == Strip(c)
    IN  IF stripped = <<>>
        THEN [ok |-> FALSE, error |-> SanitizationError(EmptyCodeMessage)]
        ELSE IF \E i \in 1..Len(BANNED_PATTERNS) : Search(BANNED_PATTERNS[i], stripped)
        THEN [ok |-> FALSE, error |-> SanitizationError(RestrictedMessage)]
        ELSE [ok |-> TRUE, value |-> c]

\* CodeExecutor._sanitize_code: the stripped code, or the error it raises
SanitizeCode(c) ==
    LET stripped == Strip(c)
    IN  IF stripped = <<>>
        THEN [ok |-> FALSE, error |-> SanitizationError(EmptyCodeMessage)]
        ELSE IF \E i \in 1..Len(BANNED_PATTERNS) : Search(BANNED_PATTERNS[i], stripped)
        THEN [ok |-> FALSE, error |-> SanitizationError(RestrictedMessage)]
        ELSE [ok |-> TRUE, value |-> stripped]

----------------------------------------------------------------------------
(* Inputs *)

\* all texts of at most n symbols over the alphabet
TextsUpTo(alphabet, n) == UNION {[1..k -> alphabet] : k \in 0..n}

\* the codes of the sanitizer specification: padding, keyword, separator, module, tail
PadChars == {" ", "\n", "x", "."}
Keywords == {<<>>, IMPORT_KW, FROM_KW, DUNDER_IMPORT}
Separators == {<<>>, <<" ">>, <<"\n">>, <<" ", "\t">>}
Modules == {<<>>, OS_MOD, SUBPROCESS_MOD, <<"x">>}
TailChars == {" ", "\n", "x", ".", "_"}

SanCodes ==
    {pre \o kw \o sep \o mod \o post :
        pre \in TextsUpTo(PadChars, MaxPad), kw \in Keywords, sep \in Separators,
        mod \in Modules, post \in TextsUpTo(TailChars, 1)}

\* the codes of the run specification
RunCodes ==
    { <<>>, <<" ", "\n">>, <<"x">>, <<" ", "x", "\n">>,
      IMPORT_KW \o <<" ">> \o OS_MOD, <<"x", "\n">> \o FROM_KW \o <<" ">> \o SUBPROCESS_MOD,
      <<"x", ".">> \o DUNDER_IMPORT }

----------------------------------------------------------------------------
(* The Runner: one case *)

\* 3.0 seconds, in tenths of a second
DEFAULT_TIMEOUT_SECONDS == 30
MAX_OUTPUT_CHARS == 10000

OutputMismatch == <<"Output mismatch">>
OutputExceeded == <<"Output exceeded allowed limit">>

Digit == [d \in 0..9 |-> <<"0", "1", "2", "3", "4", "5", "6", "7", "8", "9">>[d + 1]]

\* str() of a float below 10 with one decimal, given in tenths: 30 is "3.0", 5 is "0.5"
FormatSeconds(t) == <<Digit[t \div 10], ".", Digit[t % 10]>>

TimedOutMessage(t) == <<"Execution timed out after ">> \o FormatSeconds(t) \o <<" seconds">>

ExecutorCaseResult(id, passed, actual_output, stdout, stderr, error, runtime_ms) ==
    [test_case_id |-> id, passed |-> passed, actual_output |-> actual_output,
     stdout |-> stdout, stderr |-> stderr, error |-> error, runtime_ms |-> runtime_ms]

\* TimedOutResult that reports what TimeoutExpired carries of the streams
TimedOutResultKeepsOutput(timeout, case, o) ==
    ExecutorCaseResult(case.id, FALSE, None, o.stdout, o.stderr, TimedOutMessage(timeout),
                       o.elapsed_ms)

\* _run_single_case when subprocess.run raised TimeoutExpired
TimedOutResult(timeout, case, o) ==
    ExecutorCaseResult(case.id, FALSE, None, <<>>, <<>>, TimedOutMessage(timeout),
                       o.elapsed_ms)

\* OverflowResult that returns the streams as captured
OverflowResultUntruncated(limit, case, o) ==
    ExecutorCaseResult(case.id, FALSE, None, o.stdout, o.stderr, OutputExceeded,
                       o.elapsed_ms)

\* _run_single_case when a stream is longer than the limit
OverflowResult(limit, case, o) ==
    ExecutorCaseResult(case.id, FALSE, None, Prefix(o.stdout, limit),
                       Prefix(o.stderr, limit), OutputExceeded, o.elapsed_ms)

\* ComparedResult comparing with case.expected_output as given, not stripped
ComparedResultRawExpected(case, o) ==
    LET actual_output == IF o.stdout # <<>> THEN Strip(o.stdout) ELSE <<>>
        passed == o.returncode = 0 /\ actual_output = case.expected_output
        error_msg == IF passed THEN None
                     ELSE IF Strip(o.stderr) # <<>> THEN Strip(o.stderr)
                     ELSE OutputMismatch
    IN  ExecutorCaseResult(case.id, passed, actual_output, o.stdout, o.stderr,
                           error_msg, o.elapsed_ms)

\* ComparedResult with error_msg = stderr or "Output mismatch", stderr not stripped
ComparedResultRawStderr(case, o) ==
    LET actual_output == IF o.stdout # <<>> THEN Strip(o.stdout) ELSE <<>>
        expected_output == Strip(case.expected_output)
        passed == o.returncode = 0 /\ actual_output = expected_output
        error_msg == IF passed THEN None
                     ELSE IF o.stderr # <<>> THEN o.stderr
                     ELSE OutputMismatch
    IN  ExecutorCaseResult(case.id, passed, actual_output, o.stdout, o.stderr,
                           error_msg, o.elapsed_ms)

\* ComparedResult with error_msg = stderr.strip(), without the "Output mismatch"
\* fallback
ComparedResultNoFallback(case, o) ==
    LET actual_output == IF o.stdout # <<>> THEN Strip(o.stdout) ELSE <<>>
        expected_output == Strip(case.expected_output)
        passed == o.returncode = 0 /\ actual_output = expected_output
        error_msg == IF passed THEN None ELSE Strip(o.stderr)
    IN  ExecutorCaseResult(case.id, passed, actual_output, o.stdout, o.stderr,
                           error_msg, o.elapsed_ms)

\* _run_single_case comparing the output with the expected output
ComparedResult(case, o) ==
    LET actual_output == IF o.stdout # <<>> THEN Strip(o.stdout) ELSE <<>>
        expected_output == Strip(case.expected_output)
        passed == o.returncode = 0 /\ actual_output = expected_output
        error_msg == IF passed THEN None
                     ELSE IF Strip(o.stderr) # <<>> THEN Strip(o.stderr)
                     ELSE OutputMismatch
    IN  ExecutorCaseResult(case.id, passed, actual_output, o.stdout, o.stderr,
                           error_msg, o.elapsed_ms)

\* RunSingleCase that takes a stream of exactly limit characters for an overflow
RunSingleCaseCapInclusive(limit, timeout, case, o) ==
    IF o.kind = "timeout" THEN TimedOutResult(timeout, case, o)
    ELSE IF Len(o.stdout) >= limit \/ Len(o.stderr) >= limit
    THEN OverflowResult(limit, case, o)
    ELSE ComparedResult(case, o)

\* CodeExecutor._run_single_case, given what the child process did
RunSingleCase(limit, timeout, case, o) ==
    IF o.kind = "timeout" THEN TimedOutResult(timeout, case, o)
    ELSE IF Len(o.stdout) > limit \/ Len(o.stderr) > limit
    THEN OverflowResult(limit, case, o)
    ELSE ComparedResult(case, o)

----------------------------------------------------------------------------
(* What a child process may do *)

StreamChars == {" ", "a"}

\* the process ended by itself within the timeout
ExitOutcomes(stdouts, stderrs) ==
    [kind : {"exit"}, returncode : {0, 1}, stdout : stdouts, stderr : stderrs,
     elapsed_ms : {7}]

\* the process was still running at the timeout and was killed; stdout and
\* stderr are what it had written by then, elapsed_ms the time past the timeout
TimeoutOutcomes(stdouts, stderrs) ==
    [kind : {"timeout"}, stdout : stdouts, stderr : stderrs, elapsed_ms : {1}]

RunExits == ExitOutcomes({<<"a">>, <<"a", " ">>}, {<<>>, <<"a", "a">>})
RunTimeouts == TimeoutOutcomes({<<"a">>}, {<<>>})

CaseExits == ExitOutcomes(TextsUpTo(StreamChars, MaxStr), TextsUpTo(StreamChars, MaxStr))
CaseTimeouts == TimeoutOutcomes(TextsUpTo(StreamChars, MaxStr), {<<>>, <<"a">>})

----------------------------------------------------------------------------
(* CodeExecutor.run *)

\* Raise with a directory from mkdtemp that nothing removes
RaiseKeepsDirectory(e) ==
    /\ raised' = e
    /\ pc' = "raised"
    /\ procs' = {}
    /\ UNCHANGED <<temp_dir, solution_path>>

\* raise e out of run; leaving the with block removes the directory
Raise(e) ==
    /\ raised' = e
    /\ pc' = "raised"
    /\ procs' = {}
    /\ temp_dir' = IF temp_dir = "exists" THEN "removed" ELSE temp_dir
    /\ solution_path' = NoFile

\* sanitized_code = self._sanitize_code(code)
RunSanitize ==
    /\ pc = "start"
    /\ LET r == SanitizeCode(code)
       IN  IF r.ok
           THEN /\ sanitized_code' = r.value
                /\ pc' = "sanitized"
                /\ UNCHANGED <<raised, procs, temp_dir, solution_path>>
           ELSE /\ Raise(r.error)
                /\ UNCHANGED sanitized_code
    /\ UNCHANGED <<code, test_cases, timeout_seconds, output_char_limit, dir_name, other,
                   calls, prev, response, db, request, writes,
                   results, next_case, spawned, outcomes, returned>>

\* RunCheckCases with the check moved into the with block
RunCheckCasesInsideWith ==
    /\ pc = "sanitized"
    /\ IF test_cases = <<>>
       THEN /\ raised' = ExecutionError(NoTestCasesMessage)
            /\ pc' = "raised"
            /\ temp_dir' = "removed"
            /\ UNCHANGED <<procs, solution_path>>
       ELSE /\ pc' = "checked"
            /\ UNCHANGED <<raised, procs, temp_dir, solution_path>>
    /\ UNCHANGED <<code, test_cases, timeout_seconds, output_char_limit, dir_name, other,
                   calls, prev, response, db, request, sanitized_code,
                   writes, results, next_case, spawned, outcomes, returned>>

\* RunCheckCases without the check
RunCheckCasesSkipped ==
    /\ pc = "sanitized"
    /\ pc' = "checked"
    /\ UNCHANGED <<code, test_cases, timeout_seconds, output_char_limit, dir_name, other,
                   calls, prev, response, db, request, sanitized_code,
                   temp_dir, solution_path, writes, results, next_case, procs, spawned,
                   outcomes, raised, returned>>

\* if not test_cases: raise ExecutionError(...)
RunCheckCases ==
    /\ pc = "sanitized"
    /\ IF test_cases = <<>>
       THEN Raise(ExecutionError(NoTestCasesMessage))
       ELSE /\ pc' = "checked"
            /\ UNCHANGED <<raised, procs, temp_dir, solution_path>>
    /\ UNCHANGED <<code, test_cases, timeout_seconds, output_char_limit, dir_name, other,
                   calls, prev, response, db, request, sanitized_code,
                   writes, results, next_case, spawned, outcomes, returned>>

\* with tempfile.TemporaryDirectory() as temp_dir: mkdtemp makes a directory
\* under a name that no existing directory has
RunEnterTempDir ==
    /\ pc = "checked"
    /\ dir_name' \in DirNames \ {other.dir}
    /\ temp_dir' = "exists"
    /\ pc' = "tempdir"
    /\ UNCHANGED <<code, test_cases, timeout_seconds, output_char_limit, other,
                   calls, prev, response, db, request, sanitized_code,
                   solution_path, writes, results, next_case, procs, spawned, outcomes,
                   raised, returned>>

\* RunWriteArtifact with the list kept in the executor and never emptied
RunWriteArtifactKeepsResults ==
    /\ pc = "tempdir"
    /\ solution_path' = GUARD_PREFIX \o sanitized_code
    /\ writes' = writes + 1
    /\ UNCHANGED results
    /\ next_case' = 1
    /\ pc' = "loop"
    /\ UNCHANGED <<code, test_cases, timeout_seconds, output_char_limit, dir_name, other,
                   calls, prev, response, db, request, sanitized_code,
                   temp_dir, procs, spawned, outcomes, raised, returned>>

\* RunWriteArtifact writing the sanitized code without the preamble
RunWriteArtifactNoGuard ==
    /\ pc = "tempdir"
    /\ solution_path' = sanitized_code
    /\ writes' = writes + 1
    /\ results' = <<>>
    /\ next_case' = 1
    /\ pc' = "loop"
    /\ UNCHANGED <<code, test_cases, timeout_seconds, output_char_limit, dir_name, other,
                   calls, prev, response, db, request, sanitized_code,
                   temp_dir, procs, spawned, outcomes, raised, returned>>

\* solution_path.write_text(GUARD_PREFIX + sanitized_code); results = []
RunWriteArtifact ==
    /\ pc = "tempdir"
    /\ solution_path' = GUARD_PREFIX \o sanitized_code
    /\ writes' = writes + 1
    /\ results' = <<>>
    /\ next_case' = 1
    /\ pc' = "loop"
    /\ UNCHANGED <<code, test_cases, timeout_seconds, output_char_limit, dir_name, other,
                   calls, prev, response, db, request, sanitized_code,
                   temp_dir, procs, spawned, outcomes, raised, returned>>

\* write_text fails (the disk is full, say)
RunWriteFails ==
    /\ pc = "tempdir"
    /\ Raise([kind |-> "OSError", msg |-> "write_text"])
    /\ UNCHANGED <<code, test_cases, timeout_seconds, output_char_limit, dir_name, other,
                   calls, prev, response, db, request, sanitized_code,
                   writes, results, next_case, spawned, outcomes, returned>>

\* for case in test_cases: subprocess.run starts the child process
SpawnCase ==
    /\ pc = "loop"
    /\ next_case <= Len(test_cases)
    /\ procs' = procs \cup {next_case}
    /\ spawned' = Append(spawned, next_case)
    /\ pc' = "waiting"
    /\ UNCHANGED <<code, test_cases, timeout_seconds, output_char_limit, dir_name, other,
                   calls, prev, response, db, request, sanitized_code,
                   temp_dir, solution_path, writes, results, next_case, outcomes,
                   raised, returned>>

\* subprocess.run cannot start the child process
SpawnFails ==
    /\ pc = "loop"
    /\ next_case <= Len(test_cases)
    /\ Raise([kind |-> "OSError", msg |-> "spawn"])
    /\ UNCHANGED <<code, test_cases, timeout_seconds, output_char_limit, dir_name, other,
                   calls, prev, response, db, request, sanitized_code,
                   writes, results, next_case, spawned, outcomes, returned>>

\* FinishCase with results.insert(0, result) for results.append(result)
FinishCasePrepends(o) ==
    /\ results' = <<RunSingleCase(output_char_limit, timeout_seconds,
                                  test_cases[next_case], o)>> \o results
    /\ outcomes' = Append(outcomes, o)
    /\ procs' = procs \ {next_case}
    /\ next_case' = next_case + 1
    /\ pc' = "loop"
    /\ UNCHANGED <<code, test_cases, timeout_seconds, output_char_limit, dir_name, other,
                   calls, prev, response, db, request, sanitized_code,
                   temp_dir, solution_path, writes, spawned, raised, returned>>

\* FinishCase with a break out of the loop after a case that timed out
FinishCaseStopsOnTimeout(o) ==
    /\ results' = Append(results, RunSingleCase(output_char_limit, timeout_seconds,
                                                test_cases[next_case], o))
    /\ outcomes' = Append(outcomes, o)
    /\ procs' = procs \ {next_case}
    /\ next_case' = IF o.kind = "timeout" THEN Len(test_cases) + 1 ELSE next_case + 1
    /\ pc' = "loop"
    /\ UNCHANGED <<code, test_cases, timeout_seconds, output_char_limit, dir_name, other,
                   calls, prev, response, db, request, sanitized_code,
                   temp_dir, solution_path, writes, spawned, raised, returned>>

\* FinishCase that leaves a process that timed out running
FinishCaseLeavesProcess(o) ==
    /\ results' = Append(results, RunSingleCase(output_char_limit, timeout_seconds,
                                                test_cases[next_case], o))
    /\ outcomes' = Append(outcomes, o)
    /\ procs' = IF o.kind = "timeout" THEN procs ELSE procs \ {next_case}
    /\ next_case' = next_case + 1
    /\ pc' = "loop"
    /\ UNCHANGED <<code, test_cases, timeout_seconds, output_char_limit, dir_name, other,
                   calls, prev, response, db, request, sanitized_code,
                   temp_dir, solution_path, writes, spawned, raised, returned>>

\* FinishCase that runs a case that timed out a second time
FinishCaseRetriesTimeout(o) ==
    /\ IF o.kind = "timeout" /\ Len(spawned) = next_case
       THEN UNCHANGED <<results, outcomes, next_case>>
       ELSE /\ results' = Append(results, RunSingleCase(output_char_limit, timeout_seconds,
                                                        test_cases[next_case], o))
            /\ outcomes' = Append(outcomes, o)
            /\ next_case' = next_case + 1
    /\ procs' = procs \ {next_case}
    /\ pc' = "loop"
    /\ UNCHANGED <<code, test_cases, timeout_seconds, output_char_limit, dir_name, other,
                   calls, prev, response, db, request, sanitized_code,
                   temp_dir, solution_path, writes, spawned, raised, returned>>

\* the rest of _run_single_case and results.append(result)
FinishCase(o) ==
    /\ results' = Append(results, RunSingleCase(output_char_limit, timeout_seconds,
                                                test_cases[next_case], o))
    /\ outcomes' = Append(outcomes, o)
    /\ procs' = procs \ {next_case}
    /\ next_case' = next_case + 1
    /\ pc' = "loop"
    /\ UNCHANGED <<code, test_cases, timeout_seconds, output_char_limit, dir_name, other,
                   calls, prev, response, db, request, sanitized_code,
                   temp_dir, solution_path, writes, spawned, raised, returned>>

\* the child process ends within the timeout
ProcessExits(o) ==
    /\ pc = "waiting"
    /\ o.kind = "exit"
    /\ FinishCase(o)

\* subprocess.run without timeout=: a child that does not exit is waited for
\* forever
ProcessNeverTimesOut(o) ==
    /\ pc = "waiting"
    /\ o.kind = "timeout"
    /\ FALSE
    /\ FinishCase(o)

\* the child process is still running at the timeout: subprocess.run kills it
ProcessTimesOut(o) ==
    /\ pc = "waiting"
    /\ o.kind = "timeout"
    /\ FinishCase([o EXCEPT !.elapsed_ms = timeout_seconds * 100 + o.elapsed_ms])

\* subprocess.run raises something other than TimeoutExpired while it waits (the
\* output is not decodable text, say): it kills the child and the error leaves run
WaitFails ==
    /\ pc = "waiting"
    /\ Raise([kind |-> "UnicodeDecodeError", msg |-> "wait"])
    /\ UNCHANGED <<code, test_cases, timeout_seconds, output_char_limit, dir_name, other,
                   calls, prev, response, db, request, sanitized_code,
                   writes, results, next_case, spawned, outcomes, returned>>

\* return results; leaving the with block removes the directory
RunReturn ==
    /\ pc = "loop"
    /\ next_case > Len(test_cases)
    /\ returned' = results
    /\ temp_dir' = "removed"
    /\ solution_path' = NoFile
    /\ pc' = "returned"
    /\ UNCHANGED <<code, test_cases, timeout_seconds, output_char_limit, dir_name, other,
                   calls, prev, response, db, request, sanitized_code,
                   writes, results, next_case, procs, spawned, outcomes, raised>>

\* run is called again on the same executor with the same arguments; the
\* locals of the call that returned are gone, results is bound anew on line 71
RunAgain ==
    /\ pc = "returned"
    /\ calls = 1
    /\ calls' = 2
    /\ prev' = [test_cases |-> test_cases, outcomes |-> outcomes, returned |-> returned,
                response |-> None]
    /\ pc' = "start"
    /\ sanitized_code' = None
    /\ temp_dir' = "none"
    /\ dir_name' = "none"
    /\ solution_path' = NoFile
    /\ writes' = 0
    /\ procs' = {}
    /\ spawned' = <<>>
    /\ outcomes' = <<>>
    /\ raised' = NoError
    /\ returned' = None
    /\ UNCHANGED <<code, test_cases, timeout_seconds, output_char_limit, other, response,
                   results, next_case, db, request>>

----------------------------------------------------------------------------
(* Another run call executing at the same time, on any executor. The record
   other holds its position, the name of its temporary directory, the content
   of the file at its solution_path and whether a child of it is running.
   A write or a removal acts on the path: it changes this call's directory
   too if both calls have the same name. *)

\* the code the other call was given, after sanitization
OtherCode == <<"y">>

OtherUntouched ==
    UNCHANGED <<code, test_cases, timeout_seconds, output_char_limit, sanitized_code,
                writes, results, next_case, procs, spawned, outcomes, raised, returned,
                dir_name, calls, prev, response, db, request, pc>>

\* a temporary directory at a path fixed in advance, the same for every call
OtherEnterFixedPath ==
    /\ other.pc = "idle"
    /\ \E d \in DirNames : other' = [other EXCEPT !.pc = "tempdir", !.dir = d]
    /\ UNCHANGED <<temp_dir, solution_path>>
    /\ OtherUntouched

\* with tempfile.TemporaryDirectory() as temp_dir, in the other call
OtherEnter ==
    /\ other.pc = "idle"
    /\ \E d \in DirNames \ (IF temp_dir = "exists" THEN {dir_name} ELSE {}) :
          other' = [other EXCEPT !.pc = "tempdir", !.dir = d]
    /\ UNCHANGED <<temp_dir, solution_path>>
    /\ OtherUntouched

\* solution_path.write_text(GUARD_PREFIX + sanitized_code), in the other call
OtherWrite ==
    /\ other.pc = "tempdir"
    /\ other' = [other EXCEPT !.pc = "loop", !.file = GUARD_PREFIX \o OtherCode]
    /\ solution_path' = IF temp_dir = "exists" /\ dir_name = other.dir
                        THEN GUARD_PREFIX \o OtherCode
                        ELSE solution_path
    /\ UNCHANGED temp_dir
    /\ OtherUntouched

\* subprocess.run starts a child on the other call's solution_path
OtherSpawn ==
    /\ other.pc = "loop"
    /\ other' = [other EXCEPT !.pc = "waiting", !.running = TRUE]
    /\ UNCHANGED <<temp_dir, solution_path>>
    /\ OtherUntouched

\* the other call's child ends or is killed
OtherFinish ==
    /\ other.pc = "waiting"
    /\ other' = [other EXCEPT !.pc = "loop", !.running = FALSE]
    /\ UNCHANGED <<temp_dir, solution_path>>
    /\ OtherUntouched

\* the other call leaves its with block: its directory is removed
OtherReturn ==
    /\ other.pc = "loop"
    /\ other' = [pc |-> "done", dir |-> "none", file |-> NoFile, running |-> FALSE]
    /\ IF temp_dir = "exists" /\ dir_name = other.dir
       THEN /\ temp_dir' = "removed"
            /\ solution_path' = NoFile
       ELSE UNCHANGED <<temp_dir, solution_path>>
    /\ OtherUntouched

----------------------------------------------------------------------------
(* The execute endpoint: execute_solution of routes/executions.py *)

\* _mask_if_hidden
MaskIfHidden(value, is_hidden) == IF is_hidden THEN None ELSE value

\* _to_response_case that returns stdout of a hidden case
ToResponseCaseShowsStdout(result, test_case) ==
    [test_case_id |-> result.test_case_id,
     is_hidden |-> test_case.is_hidden,
     passed |-> result.passed,
     input_data |-> MaskIfHidden(test_case.input_data, test_case.is_hidden),
     expected_output |-> MaskIfHidden(test_case.expected_output, test_case.is_hidden),
     actual_output |-> result.actual_output,
     stdout |-> result.stdout,
     stderr |-> IF test_case.is_hidden THEN None ELSE result.stderr,
     error |-> result.error,
     runtime_ms |-> result.runtime_ms]

\* _to_response_case
ToResponseCase(result, test_case) ==
    [test_case_id |-> result.test_case_id,
     is_hidden |-> test_case.is_hidden,
     passed |-> result.passed,
     input_data |-> MaskIfHidden(test_case.input_data, test_case.is_hidden),
     expected_output |-> MaskIfHidden(test_case.expected_output, test_case.is_hidden),
     actual_output |-> result.actual_output,
     stdout |-> IF test_case.is_hidden THEN None ELSE result.stdout,
     stderr |-> IF test_case.is_hidden THEN None ELSE result.stderr,
     error |-> result.error,
     runtime_ms |-> result.runtime_ms]

HttpError(status, detail) ==
    [status |-> status, detail |-> detail, results |-> <<>>, summary |-> NoSummary]

\* sum(1 for result in case_results if result.passed), counting every verdict
RECURSIVE PassedCountAll(_)
PassedCountAll(case_results) ==
    IF case_results = <<>> THEN 0 ELSE 1 + PassedCountAll(Tail(case_results))

\* sum(1 for result in case_results if result.passed)
RECURSIVE PassedCount(_)
PassedCount(case_results) ==
    IF case_results = <<>> THEN 0
    ELSE (IF Head(case_results).passed THEN 1 ELSE 0) + PassedCount(Tail(case_results))

\* "passed" if failed_count == 0 else "failed"
StatusLabel(failed_count) == IF failed_count = 0 THEN "passed" ELSE "failed"

\* sum(result.runtime_ms for result in case_results)
RECURSIVE TotalRuntime(_)
TotalRuntime(case_results) ==
    IF case_results = <<>> THEN 0
    ELSE Head(case_results).runtime_ms + TotalRuntime(Tail(case_results))

\* bool(value) of an optional text
Truthy(value) == value # None /\ value # <<>>

\* "\n".join(filter(None, texts)) or None
RECURSIVE JoinLines(_)
JoinLines(texts) ==
    IF texts = <<>> THEN <<>>
    ELSE LET rest == JoinLines(Tail(texts))
         IN  IF ~Truthy(Head(texts)) THEN rest
             ELSE IF rest = <<>> THEN Head(texts)
             ELSE Head(texts) \o <<"\n">> \o rest

OrNone(text) == IF text = <<>> THEN None ELSE text

\* ExecutionSummary(status=status_label, passed_count=..., failed_count=...)
ExecutionSummary(case_results) ==
    LET passed_count == PassedCount(case_results)
        failed_count == Len(case_results) - passed_count
    IN  [status |-> StatusLabel(failed_count), passed_count |-> passed_count,
         failed_count |-> failed_count]

\* ExecutionResult(submission_id=..., status=..., ...), the row that is stored
ExecutionRecord(submission_id, case_results) ==
    LET passed_count == PassedCount(case_results)
        failed_count == Len(case_results) - passed_count
    IN  [submission_id |-> submission_id,
         status |-> StatusLabel(failed_count),
         passed_count |-> passed_count,
         failed_count |-> failed_count,
         stdout |-> OrNone(JoinLines([i \in 1..Len(case_results) |-> case_results[i].stdout])),
         stderr |-> OrNone(JoinLines([i \in 1..Len(case_results) |->
                                        IF Truthy(case_results[i].stderr)
                                        THEN case_results[i].stderr
                                        ELSE case_results[i].error])),
         runtime_ms |-> TotalRuntime(case_results)]

\* the execution_summary of _build_submission_read for the submission sid
SubmissionSummary(rows, sid) ==
    LET latest == rows.submissions[sid].latest_execution_result_id
    IN  IF latest = 0
        THEN [status |-> "unknown", passed_count |-> 0, failed_count |-> 0]
        ELSE [status |-> rows.execution_results[latest].status,
              passed_count |-> rows.execution_results[latest].passed_count,
              failed_count |-> rows.execution_results[latest].failed_count]

\* payload.code_override if payload.code_override is not None else submission.code
CodeToRun(rows, req) ==
    IF req.code_override # None THEN req.code_override
    ELSE rows.submissions[req.submission_id].code

\* an endpoint that stores the submitted code before it runs it
ExecuteFailsStoresCode ==
    /\ pc = "raised"
    /\ response' = IF raised.kind = "SanitizationError"
                   THEN HttpError("400", raised.msg)
                   ELSE HttpError("500", "Execution failed")
    /\ db' = IF request.path = "execute"
             THEN [db EXCEPT !.submissions =
                      Append(@, [code |-> code, latest_execution_result_id |-> 0])]
             ELSE [db EXCEPT !.submissions[request.submission_id].code = code]
    /\ pc' = "responded"
    /\ UNCHANGED <<code, test_cases, timeout_seconds, output_char_limit, sanitized_code,
                   temp_dir, solution_path, writes, results, next_case, procs, spawned,
                   outcomes, raised, returned, dir_name, other, calls, prev, request>>

\* the problem has no test cases: 400 before an executor is made
ExecuteNoCases ==
    /\ pc = "start"
    /\ test_cases = <<>>
    /\ response' = HttpError("400", "Problem has no test cases")
    /\ pc' = "responded"
    /\ UNCHANGED <<code, test_cases, timeout_seconds, output_char_limit, sanitized_code,
                   temp_dir, solution_path, writes, results, next_case, procs, spawned,
                   outcomes, raised, returned, dir_name, other, calls, prev, db, request>>

\* executor.run(payload.code, executor_cases) starts
ExecuteRun ==
    /\ test_cases # <<>>
    /\ RunSanitize

\* except branches that answer with the exception's own text whatever it is
ExecuteFailsWithText ==
    /\ pc = "raised"
    /\ response' = HttpError(IF raised.kind = "SanitizationError" THEN "400" ELSE "500",
                             raised.msg)
    /\ pc' = "responded"
    /\ UNCHANGED <<code, test_cases, timeout_seconds, output_char_limit, sanitized_code,
                   temp_dir, solution_path, writes, results, next_case, procs, spawned,
                   outcomes, raised, returned, dir_name, other, calls, prev, db, request>>

\* except SanitizationError: 400 with its text; except Exception: 500 "Execution failed"
ExecuteFails ==
    /\ pc = "raised"
    /\ response' = IF raised.kind = "SanitizationError"
                   THEN HttpError("400", raised.msg)
                   ELSE HttpError("500", "Execution failed")
    /\ pc' = "responded"
    /\ UNCHANGED <<code, test_cases, timeout_seconds, output_char_limit, sanitized_code,
                   temp_dir, solution_path, writes, results, next_case, procs, spawned,
                   outcomes, raised, returned, dir_name, other, calls, prev, db, request>>

\* execute_solution after a completed run: the Submission and its
\* ExecutionResult are stored, the response is the summary and
\* zip(case_results, test_cases)
ExecuteRespond ==
    /\ pc = "returned"
    /\ request.path = "execute"
    /\ db' = [submissions |->
                 Append(db.submissions, [code |-> code, latest_execution_result_id |-> 0]),
              execution_results |->
                 Append(db.execution_results,
                        ExecutionRecord(Len(db.submissions) + 1, returned))]
    /\ response' = [status |-> "200", detail |-> "",
                    results |-> [i \in 1..Min(Len(returned), Len(test_cases)) |->
                                    ToResponseCase(returned[i], test_cases[i])],
                    summary |-> ExecutionSummary(returned)]
    /\ pc' = "responded"
    /\ UNCHANGED <<code, test_cases, timeout_seconds, output_char_limit, sanitized_code,
                   temp_dir, solution_path, writes, results, next_case, procs, spawned,
                   outcomes, raised, returned, dir_name, other, calls, prev, request>>

\* rerun_submission after a completed run: the ExecutionResult is stored, the
\* submission points to it and takes the code_override; the response is
\* _build_submission_read of the refreshed submission
RerunRespond ==
    /\ pc = "returned"
    /\ request.path = "rerun"
    /\ LET sid == request.submission_id
           rows == [submissions |->
                       [db.submissions EXCEPT
                           ![sid] = [code |-> IF request.code_override # None
                                              THEN request.code_override
                                              ELSE @.code,
                                     latest_execution_result_id |->
                                         Len(db.execution_results) + 1]],
                    execution_results |->
                       Append(db.execution_results, ExecutionRecord(sid, returned))]
       IN  /\ db' = rows
           /\ response' = [status |-> "200", detail |-> "", results |-> <<>>,
                           summary |-> SubmissionSummary(rows, sid)]
    /\ pc' = "responded"
    /\ UNCHANGED <<code, test_cases, timeout_seconds, output_char_limit, sanitized_code,
                   temp_dir, solution_path, writes, results, next_case, procs, spawned,
                   outcomes, raised, returned, dir_name, other, calls, prev, request>>

\* the test cases a second request may find: the same ids and hidden flags,
\* any input and expected output
Rewritten(cases) ==
    {tcs \in [1..Len(cases) -> [id : {1}, input_data : {<<>>, <<"a">>},
                                expected_output : {<<"a">>, <<" ">>},
                                is_hidden : BOOLEAN]] :
        \A i \in 1..Len(cases) :
            tcs[i].id = cases[i].id /\ tcs[i].is_hidden = cases[i].is_hidden}

\* a second request for the same problem after its test cases were edited
ExecuteAgain ==
    /\ pc = "responded"
    /\ calls = 1
    /\ calls' = 2
    /\ prev' = [test_cases |-> test_cases, outcomes |-> outcomes, returned |-> returned,
                response |-> response]
    /\ test_cases' \in Rewritten(test_cases)
    /\ response' = NoResponse
    /\ pc' = "start"
    /\ sanitized_code' = None
    /\ temp_dir' = "none"
    /\ dir_name' = "none"
    /\ solution_path' = NoFile
    /\ writes' = 0
    /\ procs' = {}
    /\ spawned' = <<>>
    /\ outcomes' = <<>>
    /\ raised' = NoError
    /\ returned' = None
    /\ UNCHANGED <<code, timeout_seconds, output_char_limit, other, results, next_case,
                   db, request>>

----------------------------------------------------------------------------
(* Specifications *)

CaseIds == {1, 2}

TestCases(expected) ==
    [id : CaseIds, input_data : {<<>>}, expected_output : expected, is_hidden : {FALSE}]

CaseLists(cases, n) == UNION {[1..k -> cases] : k \in 0..n}

FreshRun ==
    /\ pc = "start"
    /\ sanitized_code = None
    /\ temp_dir = "none"
    /\ solution_path = NoFile
    /\ writes = 0
    /\ results = <<>>
    /\ next_case = 0
    /\ procs = {}
    /\ spawned = <<>>
    /\ outcomes = <<>>
    /\ raised = NoError
    /\ returned = None
    /\ dir_name = "none"
    /\ other = OtherIdle
    /\ calls = 1
    /\ prev = NoPrev
    /\ response = NoResponse

\* nothing is stored and the request, if there is one, is an execute request
Fresh ==
    /\ FreshRun
    /\ db = NoRows
    /\ request = ExecuteRequest

\* a CodeExecutor and a call of run
Init ==
    /\ code \in RunCodes
    /\ test_cases \in CaseLists(TestCases({<<"a">>, <<>>}), MaxCases)
    /\ \/ timeout_seconds = DEFAULT_TIMEOUT_SECONDS /\ output_char_limit = 1
       \/ timeout_seconds = 5 /\ output_char_limit = MAX_OUTPUT_CHARS
    /\ Fresh

Next ==
    \/ RunSanitize
    \/ RunCheckCases
    \/ RunEnterTempDir
    \/ RunWriteArtifact
    \/ RunWriteFails
    \/ SpawnCase
    \/ SpawnFails
    \/ \E o \in RunExits : ProcessExits(o)
    \/ \E o \in RunTimeouts : ProcessTimesOut(o)
    \/ WaitFails
    \/ RunReturn

Spec == Init /\ [][Next]_vars

\* one call of run with fairness: the calling thread takes its next step, and
\* the timeout fires for a child that has not exited by itself. Nothing makes a
\* child exit by itself.
LiveInit ==
    /\ code \in {<<"x">>, <<>>}
    /\ test_cases \in CaseLists(TestCases({<<"a">>}), MaxLiveCases)
    /\ timeout_seconds = DEFAULT_TIMEOUT_SECONDS
    /\ output_char_limit = 1
    /\ Fresh

RunSteps ==
    \/ RunSanitize
    \/ RunCheckCases
    \/ RunEnterTempDir
    \/ RunWriteArtifact
    \/ SpawnCase
    \/ RunReturn

TimeoutFires == \E o \in RunTimeouts : ProcessTimesOut(o)

LiveSpec ==
    /\ LiveInit
    /\ [][Next]_vars
    /\ WF_vars(RunSteps)
    /\ WF_vars(TimeoutFires)

\* two calls of run in a row on one executor, with the same arguments
RepeatExits ==
    [kind : {"exit"}, returncode : {0, 1}, stdout : {<<"a">>}, stderr : {<<>>},
     elapsed_ms : {7, 9}]
    \cup [kind : {"exit"}, returncode : {0}, stdout : {<<"a", " ">>}, stderr : {<<>>},
          elapsed_ms : {7}]

RepeatTimeouts == TimeoutOutcomes({<<"a">>}, {<<>>})

RepeatInit ==
    /\ code = <<" ", "x", "\n">>
    /\ test_cases \in CaseLists(TestCases({<<"a">>}), MaxRepeatCases) \ {<<>>}
    /\ timeout_seconds = DEFAULT_TIMEOUT_SECONDS
    /\ output_char_limit = 1
    /\ Fresh

RepeatNext ==
    \/ RunSanitize
    \/ RunCheckCases
    \/ RunEnterTempDir
    \/ RunWriteArtifact
    \/ SpawnCase
    \/ \E o \in RepeatExits : ProcessExits(o)
    \/ \E o \in RepeatTimeouts : ProcessTimesOut(o)
    \/ RunReturn
    \/ RunAgain

RepeatSpec == RepeatInit /\ [][RepeatNext]_vars

\* two run calls at the same time
ConcExits == ExitOutcomes({<<"a">>}, {<<>>})

ConcTimeouts == TimeoutOutcomes({<<"a">>}, {<<>>})

ConcInit ==
    /\ code = <<"x">>
    /\ test_cases \in CaseLists(TestCases({<<"a">>}), MaxConcCases)
    /\ test_cases # <<>>
    /\ timeout_seconds = DEFAULT_TIMEOUT_SECONDS
    /\ output_char_limit = MAX_OUTPUT_CHARS
    /\ Fresh

ConcNext ==
    \/ RunSanitize
    \/ RunCheckCases
    \/ RunEnterTempDir
    \/ RunWriteArtifact
    \/ RunWriteFails
    \/ SpawnCase
    \/ SpawnFails
    \/ \E o \in ConcExits : ProcessExits(o)
    \/ \E o \in ConcTimeouts : ProcessTimesOut(o)
    \/ WaitFails
    \/ RunReturn
    \/ OtherEnter
    \/ OtherWrite
    \/ OtherSpawn
    \/ OtherFinish
    \/ OtherReturn

ConcSpec == ConcInit /\ [][ConcNext]_vars

\* one execute request: CodeExecutor() with its defaults
ExecExits ==
    [kind : {"exit"}, returncode : {0, 1}, stdout : {<<"a">>, <<>>}, stderr : {<<>>},
     elapsed_ms : {7}]
    \cup [kind : {"exit"}, returncode : {1}, stdout : {<<>>}, stderr : {<<"a">>},
          elapsed_ms : {7}]

ExecTimeouts == TimeoutOutcomes({<<"a">>}, {<<>>})

ExecCodes == {<<"x">>, <<" ">>, IMPORT_KW \o <<" ">> \o OS_MOD}

ExecInit ==
    /\ code \in ExecCodes
    /\ test_cases \in CaseLists([id : CaseIds, input_data : {<<>>, <<"a">>},
                                 expected_output : {<<"a">>}, is_hidden : BOOLEAN],
                                MaxExecCases)
    /\ timeout_seconds = DEFAULT_TIMEOUT_SECONDS
    /\ output_char_limit = MAX_OUTPUT_CHARS
    /\ Fresh

ExecNext ==
    \/ ExecuteNoCases
    \/ ExecuteRun
    \/ RunCheckCases
    \/ RunEnterTempDir
    \/ RunWriteArtifact
    \/ RunWriteFails
    \/ SpawnCase
    \/ SpawnFails
    \/ \E o \in ExecExits : ProcessExits(o)
    \/ \E o \in ExecTimeouts : ProcessTimesOut(o)
    \/ WaitFails
    \/ RunReturn
    \/ ExecuteFails
    \/ ExecuteRespond

ExecSpec == ExecInit /\ [][ExecNext]_vars

\* one request to either endpoint, with rows stored by earlier requests: a
\* submission and the result of its last execution
StoredCode == <<"x">>

StoredRows ==
    [submissions |-> <<[code |-> StoredCode, latest_execution_result_id |-> 1]>>,
     execution_results |->
        <<[submission_id |-> 1, status |-> "failed", passed_count |-> 0,
           failed_count |-> 1, stdout |-> None, stderr |-> OutputMismatch,
           runtime_ms |-> 7]>>]

RerunRequests ==
    [path : {"rerun"}, submission_id : {1},
     code_override : {None, <<"y">>, <<" ">>, IMPORT_KW \o <<" ">> \o OS_MOD}]

StoreInit ==
    /\ db = StoredRows
    /\ request \in {ExecuteRequest} \cup RerunRequests
    /\ IF request.path = "rerun"
       THEN code = CodeToRun(db, request)
       ELSE code \in ExecCodes
    /\ test_cases \in CaseLists([id : CaseIds, input_data : {<<>>},
                                 expected_output : {<<"a">>}, is_hidden : BOOLEAN],
                                MaxStoreCases)
    /\ timeout_seconds = DEFAULT_TIMEOUT_SECONDS
    /\ output_char_limit = MAX_OUTPUT_CHARS
    /\ FreshRun

StoreNext ==
    \/ ExecNext
    \/ RerunRespond

StoreSpec == StoreInit /\ [][StoreNext]_vars

\* two execute requests in a row for one problem
LeakInit ==
    /\ code = <<"x">>
    /\ test_cases \in CaseLists([id : {1}, input_data : {<<>>, <<"a">>},
                                 expected_output : {<<"a">>}, is_hidden : BOOLEAN],
                                MaxLeakCases)
    /\ timeout_seconds = DEFAULT_TIMEOUT_SECONDS
    /\ output_char_limit = MAX_OUTPUT_CHARS
    /\ Fresh

LeakNext ==
    \/ ExecNext
    \/ ExecuteAgain

LeakSpec == LeakInit /\ [][LeakNext]_vars

\* _sanitize_code alone, on many codes
SanInit ==
    /\ code \in SanCodes
    /\ test_cases = <<>>
    /\ timeout_seconds = DEFAULT_TIMEOUT_SECONDS
    /\ output_char_limit = MAX_OUTPUT_CHARS
    /\ Fresh

SanNext == RunSanitize

SanSpec == SanInit /\ [][SanNext]_vars

\* _run_single_case alone: run is waiting for the process of its only case
CaseInit ==
    /\ code = <<"x">>
    /\ test_cases \in [1..1 -> TestCases(TextsUpTo(StreamChars, MaxStr))]
    /\ timeout_seconds \in {5, DEFAULT_TIMEOUT_SECONDS}
    /\ output_char_limit \in {0, 1, 2, MAX_OUTPUT_CHARS}
    /\ pc = "waiting"
    /\ sanitized_code = <<"x">>
    /\ temp_dir = "exists"
    /\ solution_path = GUARD_PREFIX \o <<"x">>
    /\ writes = 1
    /\ results = <<>>
    /\ next_case = 1
    /\ procs = {1}
    /\ spawned = <<1>>
    /\ outcomes = <<>>
    /\ raised = NoError
    /\ returned = None
    /\ dir_name \in DirNames
    /\ other = OtherIdle
    /\ calls = 1
    /\ prev = NoPrev
    /\ response = NoResponse
    /\ db = NoRows
    /\ request = ExecuteRequest

CaseNext ==
    \/ \E o \in CaseExits : ProcessExits(o)
    \/ \E o \in CaseTimeouts : ProcessTimesOut(o)
    \/ RunReturn

CaseSpec == CaseInit /\ [][CaseNext]_vars

----------------------------------------------------------------------------
(* Properties *)

\* t is s without its leading and trailing whitespace
IsTrimOf(t, s) ==
    \E a \in 0..Len(s) : \E b \in 0..(Len(s) - a) :
        /\ \A k \in 1..a : IsSpace(s[k])
        /\ \A k \in (Len(s) - b + 1)..Len(s) : IsSpace(s[k])
        /\ t = SubSeq(s, a + 1, Len(s) - b)
        /\ t # <<>> => ~IsSpace(t[1]) /\ ~IsSpace(t[Len(t)])

\* the case at position i ended within the timeout with both streams within the cap
WithinLimits(i) ==
    /\ outcomes[i].kind = "exit"
    /\ Len(outcomes[i].stdout) <= output_char_limit
    /\ Len(outcomes[i].stderr) <= output_char_limit

\* C1: when run returns, it returns exactly one verdict per test case, in input
\* order: the list is as long as test_cases and its i-th verdict carries the id
\* of the i-th test case, whatever the cases' processes did.
C1_OrderPreserved ==
    pc = "returned" =>
        /\ Len(returned) = Len(test_cases)
        /\ \A i \in 1..Len(test_cases) : returned[i].test_case_id = test_cases[i].id

\* C1 witness: run returned two verdicts for cases with different ids, the first
\* timed out and the second overflowed
C1_Witness ==
    /\ pc = "returned"
    /\ Len(test_cases) = 2
    /\ test_cases[1].id # test_cases[2].id
    /\ outcomes[1].kind = "timeout"
    /\ returned[2].error = OutputExceeded

\* C2: a case that times out, exits non-zero or overflows does not stop the
\* batch: the loop goes on to spawn the next case, run returns only after a
\* process was spawned for every case in order, and each verdict is the
\* classification of that case's own process outcome.
C2_FailIsolation ==
    /\ \A i \in 1..Len(results) :
          results[i] = RunSingleCase(output_char_limit, timeout_seconds,
                                     test_cases[i], outcomes[i])
    /\ (pc = "loop" /\ Len(outcomes) < Len(test_cases)) => ENABLED SpawnCase
    /\ pc = "returned" => spawned = [i \in 1..Len(test_cases) |-> i]

\* C2 witness: the first case timed out, the second one passed, run returned
C2_Witness ==
    /\ pc = "returned"
    /\ Len(test_cases) = 2
    /\ outcomes[1].kind = "timeout"
    /\ returned[2].passed

\* C3: for a case that finished within the timeout with both streams within the
\* cap, passed is true exactly when the exit code is 0 and the trimmed stdout
\* equals the trimmed expected output; actual_output is the trimmed stdout
\* whether or not the case passed.
C3_PassCondition ==
    \A i \in 1..Len(results) :
        WithinLimits(i) =>
            /\ IsTrimOf(results[i].actual_output, outcomes[i].stdout)
            /\ results[i].passed <=>
                  /\ outcomes[i].returncode = 0
                  /\ IsTrimOf(results[i].actual_output, test_cases[i].expected_output)

\* C3 witness: a case passed although stdout and the expected output differ in
\* their outer whitespace
C3_Witness ==
    /\ Len(results) = 1
    /\ WithinLimits(1)
    /\ results[1].passed
    /\ outcomes[1].stdout # results[1].actual_output
    /\ test_cases[1].expected_output # results[1].actual_output
    /\ test_cases[1].expected_output # outcomes[1].stdout

\* C4: for a case that finished within the timeout and the cap but did not pass,
\* error is the trimmed stderr when that is non-empty and "Output mismatch"
\* otherwise; for a case that passed, error is absent.
C4_ErrorMessage ==
    \A i \in 1..Len(results) :
        WithinLimits(i) =>
            IF results[i].passed
            THEN results[i].error = None
            ELSE IF \A k \in 1..Len(outcomes[i].stderr) : IsSpace(outcomes[i].stderr[k])
            THEN results[i].error = OutputMismatch
            ELSE IsTrimOf(results[i].error, outcomes[i].stderr)

\* C4 witness: a non-zero exit whose stdout is the expected output and whose
\* stderr is blank but not empty is reported as "Output mismatch"
C4_Witness ==
    /\ Len(results) = 1
    /\ WithinLimits(1)
    /\ outcomes[1].returncode # 0
    /\ outcomes[1].stdout = test_cases[1].expected_output
    /\ outcomes[1].stderr # <<>>
    /\ results[1].error = OutputMismatch

\* the text "Execution timed out after <N> seconds" for the timeouts of the model
ExpectedTimedOutText ==
    IF timeout_seconds = 30
    THEN <<"Execution timed out after ", "3", ".", "0", " seconds">>
    ELSE IF timeout_seconds = 5
    THEN <<"Execution timed out after ", "0", ".", "5", " seconds">>
    ELSE <<>>

\* C5: when a case's process is still running at the timeout, it is terminated
\* and the verdict is passed = false, actual_output absent, stdout = "",
\* stderr = "", error = "Execution timed out after <N> seconds" with N the
\* configured timeout, whatever the process had written.
C5_TimedOut ==
    \A i \in 1..Len(results) :
        outcomes[i].kind = "timeout" =>
            /\ results[i].passed = FALSE
            /\ results[i].actual_output = None
            /\ results[i].stdout = <<>>
            /\ results[i].stderr = <<>>
            /\ results[i].error = ExpectedTimedOutText
            /\ i \notin procs

\* C5 witness: a process that had written to both streams was stopped at the
\* timeout
C5_Witness ==
    /\ Len(results) = 1
    /\ outcomes[1].kind = "timeout"
    /\ outcomes[1].stdout # <<>>
    /\ outcomes[1].stderr # <<>>
    /\ timeout_seconds = 5

\* s cut to its first n symbols, unchanged when it has at most n
IsCutOf(t, s, n) ==
    /\ Len(t) = IF Len(s) > n THEN n ELSE Len(s)
    /\ \A k \in 1..Len(t) : t[k] = s[k]

\* C6: when a case finished within the timeout and stdout or stderr is longer
\* than the cap, the verdict is passed = false, actual_output absent,
\* error = "Output exceeded allowed limit", and each returned stream is its
\* first cap characters.
C6_Overflow ==
    \A i \in 1..Len(results) :
        (/\ outcomes[i].kind = "exit"
         /\ \/ Len(outcomes[i].stdout) > output_char_limit
            \/ Len(outcomes[i].stderr) > output_char_limit) =>
            /\ results[i].passed = FALSE
            /\ results[i].actual_output = None
            /\ results[i].error = OutputExceeded
            /\ IsCutOf(results[i].stdout, outcomes[i].stdout, output_char_limit)
            /\ IsCutOf(results[i].stderr, outcomes[i].stderr, output_char_limit)

\* C6 witness: stdout is over the cap and comes back with exactly cap
\* characters; stderr is within the cap, not empty, and comes back unchanged
C6_Witness ==
    /\ Len(results) = 1
    /\ outcomes[1].kind = "exit"
    /\ output_char_limit = 1
    /\ Len(outcomes[1].stdout) = 2
    /\ Len(results[1].stdout) = 1
    /\ outcomes[1].stderr # <<>>
    /\ results[1].stderr = outcomes[1].stderr

\* a line of s starts, after optional blanks, with kw, one space and mod as a
\* whole word
HasStatementLine(s, kw, mod) ==
    \E p \in 1..Len(s) : \E q \in p..Len(s) :
        /\ p = 1 \/ s[p - 1] = "\n"
        /\ \A k \in p..(q - 1) : s[k] \in {" ", "\t"}
        /\ HasAt(s, q, kw \o <<" ">> \o mod)
        /\ LET after == q + Len(kw) + 1 + Len(mod)
           IN  after > Len(s) \/ s[after] \notin WordChars

\* what C7 names: an import of os or subprocess at a line start, or __import__
NamedByC7(s) ==
    \/ HasStatementLine(s, IMPORT_KW, OS_MOD)
    \/ HasStatementLine(s, FROM_KW, OS_MOD)
    \/ HasStatementLine(s, IMPORT_KW, SUBPROCESS_MOD)
    \/ HasStatementLine(s, FROM_KW, SUBPROCESS_MOD)
    \/ \E p \in 1..Len(s) : HasAt(s, p, DUNDER_IMPORT)

\* C7: sanitization fails with SanitizationError and the one fixed
\* 'restricted' message whenever the trimmed code has a line that starts with
\* import os, from os, import subprocess or from subprocess as a whole word, or
\* contains __import__ anywhere.
C7_Restricted ==
    (pc # "start" /\ NamedByC7(Strip(code))) =>
        /\ pc = "raised"
        /\ raised = [kind |-> "SanitizationError",
                     msg |-> "Use of restricted modules or patterns is not allowed"]

\* C7 witness: code rejected for a statement on a line that is not the first
C7_Witness ==
    /\ pc = "raised"
    /\ raised.msg = RestrictedMessage
    /\ HasStatementLine(code, FROM_KW, SUBPROCESS_MOD)
    /\ ~HasAt(code, 1, FROM_KW)
    /\ code[1] = "x"

\* C8: sanitization fails with the 'empty' SanitizationError exactly when the
\* code is whitespace only; for accepted code it returns the code without its
\* surrounding whitespace and nothing else changed; it touches nothing else.
C8_EmptyAndTrim ==
    pc # "start" =>
        /\ (raised = [kind |-> "SanitizationError", msg |-> "Solution code cannot be empty"])
              <=> (\A k \in 1..Len(code) : IsSpace(code[k]))
        /\ pc = "sanitized" => IsTrimOf(sanitized_code, code)
        /\ pc = "raised" => sanitized_code = None
        /\ temp_dir = "none" /\ solution_path = NoFile /\ writes = 0
        /\ procs = {} /\ spawned = <<>> /\ results = <<>> /\ returned = None
        /\ timeout_seconds = DEFAULT_TIMEOUT_SECONDS
        /\ output_char_limit = MAX_OUTPUT_CHARS

\* C8 witness: code accepted and returned without its surrounding whitespace
C8_Witness ==
    /\ pc = "sanitized"
    /\ sanitized_code # code
    /\ Len(sanitized_code) > 1

\* C9: when run ends with SanitizationError or with the no-test-cases
\* ExecutionError, no child process was spawned and no temporary directory or
\* artifact was created during the call.
C9_NothingCreated ==
    (/\ pc = "raised"
     /\ \/ raised.kind = "SanitizationError"
        \/ raised = [kind |-> "ExecutionError", msg |-> "No test cases to execute"]) =>
        /\ spawned = <<>>
        /\ procs = {}
        /\ temp_dir = "none"
        /\ solution_path = NoFile
        /\ writes = 0

\* C9 witness: run ended with the no-test-cases error
C9_Witness ==
    /\ pc = "raised"
    /\ raised = ExecutionError(NoTestCasesMessage)
    /\ test_cases = <<>>

\* C10 as stated: for every code text, run called with an empty test-case
\* sequence fails with the ExecutionError for missing test cases.
C10_AsStated ==
    (test_cases = <<>> /\ pc = "raised") =>
        raised = [kind |-> "ExecutionError", msg |-> "No test cases to execute"]

\* C10 amended: run called with an empty test-case sequence ends with an error
\* before anything is created: the ExecutionError for missing test cases when
\* the trimmed code is non-empty and matches no banned pattern, and the
\* SanitizationError of the code otherwise, since the code is sanitized first.
C10_EmptyCases ==
    (test_cases = <<>> /\ pc \notin {"start", "sanitized"}) =>
        /\ pc = "raised"
        /\ IF /\ \E k \in 1..Len(code) : ~IsSpace(code[k])
              /\ \A i \in 1..Len(BANNED_PATTERNS) : ~Search(BANNED_PATTERNS[i], Strip(code))
           THEN raised = [kind |-> "ExecutionError", msg |-> "No test cases to execute"]
           ELSE raised.kind = "SanitizationError"

\* C10 witness: an accepted code with no test cases ends with the
\* no-test-cases error
C10_Witness ==
    /\ test_cases = <<>>
    /\ sanitized_code # None
    /\ raised = ExecutionError(NoTestCasesMessage)

\* C11: within one run call at most one child process exists at any time: run
\* has a process only while it waits for it, and the process of a case is
\* spawned only after the processes of all earlier cases have ended.
C11_OneProcess ==
    /\ Cardinality(procs) <= 1
    /\ pc = "waiting" =>
          /\ procs = {next_case}
          /\ Len(outcomes) = next_case - 1
          /\ spawned = [i \in 1..next_case |-> i]
    /\ pc # "waiting" => procs = {}

\* C11 witness: run waits for the process of the second case after the first
\* one was killed at its timeout
C11_Witness ==
    /\ pc = "waiting"
    /\ next_case = 2
    /\ outcomes[1].kind = "timeout"
    /\ procs = {2}

\* C12: the directory and the artifact exist for as long as a child process of
\* the call is running, and both are gone after every exit of the call that
\* created them: a normal return, a failed write of the artifact, an exception
\* while spawning or waiting.
C12_ScopedArtifact ==
    /\ procs # {} =>
          /\ temp_dir = "exists"
          /\ solution_path = GUARD_PREFIX \o sanitized_code
    /\ pc \in {"returned", "raised"} =>
          /\ temp_dir # "exists"
          /\ solution_path = NoFile
          /\ procs = {}
    /\ (pc = "returned" \/ (pc = "raised" /\ raised.kind \in {"OSError", "UnicodeDecodeError"}))
          => temp_dir = "removed"

\* C12 witness: an exception while waiting for the second case ended the call
\* and the directory is removed
C12_Witness ==
    /\ pc = "raised"
    /\ raised.msg = "wait"
    /\ Len(results) = 1
    /\ temp_dir = "removed"

Terminal == {"Passed", "Mismatched", "Overflowed", "TimedOut"}

\* the state of the case at position i
CaseState(i) ==
    IF i \in procs THEN "Running"
    ELSE IF i > Len(results) THEN "Pending"
    ELSE IF results[i].passed THEN "Passed"
    ELSE IF results[i].error = OutputExceeded THEN "Overflowed"
    ELSE IF results[i].error[1] = "Execution timed out after " THEN "TimedOut"
    ELSE "Mismatched"

\* no process is started twice for a case; when run returns one was started
\* for every case and every case is in a terminal state
C13_SpawnedOnce ==
    /\ \A j, k \in 1..Len(spawned) : j # k => spawned[j] # spawned[k]
    /\ pc = "returned" =>
          \A i \in 1..Len(test_cases) :
              /\ \E k \in 1..Len(spawned) : spawned[k] = i
              /\ CaseState(i) \in Terminal

\* a case only moves Pending -> Running -> terminal while the call goes on,
\* and a verdict in the list is never changed
C13_Step ==
    \A i \in 1..Len(test_cases) :
        /\ (CaseState(i) = "Pending" /\ pc' # "raised")
              => CaseState(i)' \in {"Pending", "Running"}
        /\ (CaseState(i) = "Running" /\ pc' # "raised")
              => CaseState(i)' \in {"Running"} \cup Terminal
        /\ CaseState(i) \in Terminal
              => CaseState(i)' = CaseState(i) /\ results'[i] = results[i]

\* C13: each test case moves Pending -> Running -> exactly one of Passed,
\* Mismatched, Overflowed, TimedOut, never leaves its terminal state and is
\* never retried: its process is spawned once and its verdict never changes.
C13_Lifecycle == []C13_SpawnedOnce /\ [][C13_Step]_vars

\* C13 witness: run returned with the first case TimedOut and the second
\* Mismatched
C13_Witness ==
    /\ pc = "returned"
    /\ Len(test_cases) = 2
    /\ CaseState(1) = "TimedOut"
    /\ CaseState(2) = "Mismatched"

\* the processes of this call did what those of the call before did, the time
\* they took apart
SameBehaviour ==
    /\ test_cases = prev.test_cases
    /\ Len(outcomes) = Len(prev.outcomes)
    /\ \A i \in 1..Len(outcomes) :
          [outcomes[i] EXCEPT !.elapsed_ms = 0] = [prev.outcomes[i] EXCEPT !.elapsed_ms = 0]

\* C14: two run calls with the same code and test cases whose processes behave
\* identically return lists of the same length that agree in passed,
\* actual_output and error at every position.
C14_Deterministic ==
    (calls = 2 /\ pc = "returned" /\ SameBehaviour) =>
        /\ Len(returned) = Len(prev.returned)
        /\ \A i \in 1..Len(returned) :
              /\ returned[i].test_case_id = prev.returned[i].test_case_id
              /\ returned[i].passed = prev.returned[i].passed
              /\ returned[i].actual_output = prev.returned[i].actual_output
              /\ returned[i].error = prev.returned[i].error

\* C14 witness: the second call returned after the same behaviour of two
\* processes, and only a runtime differs
C14_Witness ==
    /\ calls = 2
    /\ pc = "returned"
    /\ SameBehaviour
    /\ Len(returned) = 2
    /\ returned[1].runtime_ms # prev.returned[1].runtime_ms
    /\ returned[2].error = OutputExceeded

\* C15: in the execute response a hidden case's input_data, expected_output,
\* stdout and stderr are absent, a visible case's four fields are the test
\* case's and the verdict's values, and passed and runtime_ms are the verdict's
\* for every case.
C15_Masking ==
    (pc = "responded" /\ response.status = "200") =>
        /\ Len(response.results) = Len(test_cases)
        /\ \A i \in 1..Len(response.results) :
              LET r == response.results[i]
                  tc == test_cases[i]
                  v == returned[i]
              IN  /\ r.passed = v.passed
                  /\ r.runtime_ms = v.runtime_ms
                  /\ r.is_hidden = tc.is_hidden
                  /\ IF tc.is_hidden
                     THEN /\ r.input_data = None
                          /\ r.expected_output = None
                          /\ r.stdout = None
                          /\ r.stderr = None
                     ELSE /\ r.input_data = tc.input_data
                          /\ r.expected_output = tc.expected_output
                          /\ r.stdout = v.stdout
                          /\ r.stderr = v.stderr

\* C15 witness: a response with a hidden case and a visible case, both with
\* input and output
C15_Witness ==
    /\ pc = "responded"
    /\ response.status = "200"
    /\ Len(test_cases) = 2
    /\ test_cases[1].is_hidden
    /\ ~test_cases[2].is_hidden
    /\ \A i \in 1..2 : test_cases[i].input_data # <<>> /\ returned[i].stdout = <<"a">>
    /\ response.results[1].passed
    /\ response.results[1].runtime_ms = 7

\* the two requests differ in nothing but a hidden case's input, expected
\* output, stdout or stderr, and agree on every case's pass/fail
DifferOnlyInHidden ==
    /\ calls = 2
    /\ pc = "responded"
    /\ response.status = "200"
    /\ prev.response.status = "200"
    /\ Len(test_cases) = Len(prev.test_cases)
    /\ \A i \in 1..Len(test_cases) :
          /\ returned[i].passed = prev.returned[i].passed
          /\ outcomes[i].kind = prev.outcomes[i].kind
          /\ outcomes[i].kind = "exit" => outcomes[i].returncode = prev.outcomes[i].returncode
          /\ ~test_cases[i].is_hidden =>
                /\ test_cases[i] = prev.test_cases[i]
                /\ outcomes[i] = prev.outcomes[i]

\* C16: two executions that agree on every case's pass/fail and differ only in
\* a hidden case's input, expected output, stdout or stderr yield responses
\* whose entries for the hidden case are equal in every field except runtime_ms.
C16_HiddenRevealsNothing ==
    DifferOnlyInHidden =>
        \A i \in 1..Len(test_cases) :
            test_cases[i].is_hidden =>
                [response.results[i] EXCEPT !.runtime_ms = 0]
                    = [prev.response.results[i] EXCEPT !.runtime_ms = 0]

\* C18: a failure to spawn a case's process propagates out of run as an error
\* that is neither SanitizationError nor ExecutionError, no verdict list is
\* returned, and the execute endpoint answers 500 "Execution failed" without
\* the error's text.
C18_SpawnFailureFatal ==
    (raised.kind = "OSError" /\ raised.msg = "spawn") =>
        /\ pc \in {"raised", "responded"}
        /\ ~IsExecutionError(raised)
        /\ returned = None
        /\ procs = {}
        /\ pc = "responded" =>
              /\ response = HttpError("500", "Execution failed")
              /\ response.detail # raised.msg

\* C18 witness: the second case's process could not be spawned after the first
\* case got its verdict, and the endpoint has answered
C18_Witness ==
    /\ pc = "responded"
    /\ raised.kind = "OSError"
    /\ raised.msg = "spawn"
    /\ Len(results) = 1
    /\ Len(test_cases) = 2
    /\ response.status = "500"

\* C17: two run calls executing at the same time have temporary directories
\* of different names; while a call has a child process running or cases left,
\* the file at its solution_path is its own artifact, whatever the other call
\* writes or removes.
C17_Isolated ==
    /\ (temp_dir = "exists" /\ other.dir # "none") => dir_name # other.dir
    /\ pc \in {"loop", "waiting"} =>
          /\ temp_dir = "exists"
          /\ solution_path = GUARD_PREFIX \o sanitized_code
    /\ procs # {} => solution_path = GUARD_PREFIX \o sanitized_code
    /\ other.pc \in {"loop", "waiting"} => other.file = GUARD_PREFIX \o OtherCode
    /\ other.running => other.file # solution_path

\* C17 witness: this call's second child is running after the other call ran
\* a child at the same time as this call's first, finished and removed its
\* directory
C17_Witness ==
    /\ pc = "waiting"
    /\ procs = {2}
    /\ other.pc = "done"
    /\ Len(results) = 1

\* C17 witness of the other direction: the other call's child is running after
\* this call returned and removed its directory
C17_WitnessOther ==
    /\ pc = "returned"
    /\ temp_dir = "removed"
    /\ other.running

\* the artifact as the claim describes it: the preamble, then the trimmed code
C19_Artifact ==
    /\ writes = 1
    /\ temp_dir = "exists"
    /\ IsTrimOf(sanitized_code, code)
    /\ Len(solution_path) = Len(GUARD_PREFIX) + Len(sanitized_code)
    /\ SubSeq(solution_path, 1, Len(GUARD_PREFIX)) = GUARD_PREFIX
    /\ SubSeq(solution_path, Len(GUARD_PREFIX) + 1, Len(solution_path)) = sanitized_code

C19_WrittenOnce ==
    /\ writes <= 1
    /\ spawned # <<>> => writes = 1
    /\ pc \in {"loop", "waiting"} => C19_Artifact
    /\ pc = "returned" => writes = 1

\* from the write to the end of the loop nothing writes the artifact again or
\* moves it
C19_Step ==
    (pc \in {"loop", "waiting"} /\ pc' \in {"loop", "waiting"}) =>
        UNCHANGED <<solution_path, dir_name, temp_dir, writes>>

\* C19: in a run call that passes sanitization with a non-empty case list the
\* artifact is written exactly once, before the first process is spawned, with
\* the preamble followed by the trimmed code; it is never rewritten between
\* cases and every case's process is started on that same file.
C19_ArtifactOnce == []C19_WrittenOnce /\ [][C19_Step]_vars

\* C19 witness: the process of the second case is running on the artifact
\* written before the first, and the code given had blanks around it
C19_Witness ==
    /\ pc = "waiting"
    /\ next_case = 2
    /\ spawned = <<1, 2>>
    /\ writes = 1
    /\ code # sanitized_code
    /\ solution_path = GUARD_PREFIX \o <<"x">>

\* C20: a timeout is classified before anything else; a case that exits 0
\* with trimmed stdout equal to the trimmed expected output is Overflowed
\* (passed = false, actual_output absent) when stdout or stderr is longer than
\* the cap, and passes when both streams have at most cap characters.
C20_Order ==
    \A i \in 1..Len(results) :
        LET o == outcomes[i]
            r == results[i]
            over == Len(o.stdout) > output_char_limit \/ Len(o.stderr) > output_char_limit
            matches == /\ o.returncode = 0
                       /\ Strip(o.stdout) = Strip(test_cases[i].expected_output)
        IN  /\ o.kind = "timeout" => r.error = ExpectedTimedOutText
            /\ (o.kind = "exit" /\ matches /\ over) =>
                  /\ r.passed = FALSE
                  /\ r.actual_output = None
                  /\ r.error = OutputExceeded
            /\ (o.kind = "exit" /\ matches /\ ~over) =>
                  /\ r.passed = TRUE
                  /\ r.error = None

\* C20 witness: the process exited 0 and its stdout, trimmed, is the expected
\* output, but stdout has one character more than the cap
C20_Witness ==
    /\ Len(results) = 1
    /\ outcomes[1].kind = "exit"
    /\ outcomes[1].returncode = 0
    /\ output_char_limit = 1
    /\ outcomes[1].stdout = <<"a", " ">>
    /\ test_cases[1].expected_output = <<"a">>
    /\ results[1].error = OutputExceeded

\* C20 witness of the boundary: stdout has exactly cap characters and the case
\* passes
C20_WitnessAtCap ==
    /\ Len(results) = 1
    /\ outcomes[1].kind = "exit"
    /\ output_char_limit = 2
    /\ Len(outcomes[1].stdout) = 2
    /\ results[1].passed

\* the call is over: it returned its verdict list or raised
RunIsOver == pc \in {"returned", "raised"}

\* C21: when the timeout fires for every process that does not exit by itself,
\* every run call over a finite case list eventually returns its verdict list
\* or raises, and it never spawns more processes than there are test cases.
C21_Terminates ==
    /\ <>RunIsOver
    /\ [](Len(spawned) <= Len(test_cases))
    /\ [](pc = "returned" => Len(returned) = Len(test_cases))

\* C21 witness: run returned two verdicts after the first case's process was
\* stopped at the timeout, with one process spawned for each case
C21_Witness ==
    /\ pc = "returned"
    /\ Len(returned) = 2
    /\ outcomes[1].kind = "timeout"
    /\ Len(spawned) = 2

\* the case at position i timed out or overflowed
TimedOutOrOverflowed(i) ==
    \/ outcomes[i].kind = "timeout"
    \/ Len(outcomes[i].stdout) > output_char_limit
    \/ Len(outcomes[i].stderr) > output_char_limit

\* C22: every verdict is well-formed: passed = true implies error absent and
\* actual_output present; passed = false implies error is a non-empty text;
\* actual_output is absent exactly when the case timed out or overflowed.
C22_WellFormed ==
    /\ \A i \in 1..Len(results) :
          LET r == results[i]
          IN  /\ r.passed \in BOOLEAN
              /\ r.passed => r.error = None /\ r.actual_output # None
              /\ ~r.passed => r.error # None /\ r.error # <<>>
              /\ r.actual_output = None <=> TimedOutOrOverflowed(i)
    /\ pc = "returned" => returned = results

\* C22 witness: run returned a failed verdict whose actual_output is present
\* but empty and whose error is the fallback text, stderr being blank
C22_Witness ==
    /\ pc = "returned"
    /\ Len(returned) = 1
    /\ ~returned[1].passed
    /\ returned[1].actual_output = <<>>
    /\ outcomes[1].stderr = <<" ">>
    /\ returned[1].error = OutputMismatch

\* C23: in the execute and the rerun endpoints, when executor.run raises, the
\* request ends with an HTTP error and the stored rows are as they were: no
\* Submission or ExecutionResult is added, and the submission keeps its code
\* and its latest execution result, with a code_override or without.
C23_NothingStored ==
    raised # NoError =>
        /\ Len(db.submissions) = 1
        /\ Len(db.execution_results) = 1
        /\ db.submissions[1].code = StoredCode
        /\ db.submissions[1].latest_execution_result_id = 1
        /\ db = StoredRows
        /\ pc = "responded" =>
              /\ response.status \in {"400", "500"}
              /\ response.status = "400" <=> raised.kind = "SanitizationError"
              /\ response.results = <<>>
              /\ response.summary = NoSummary

\* C23 witness: a rerun with a code_override failed to spawn the process of its
\* second case and was answered 500
C23_Witness ==
    /\ pc = "responded"
    /\ request.path = "rerun"
    /\ request.code_override = <<"y">>
    /\ raised.kind = "OSError"
    /\ Len(results) = 1
    /\ response.status = "500"

\* C23 witness of a rejection: a rerun whose code_override the sanitizer rejects
\* was answered 400
C23_WitnessRejected ==
    /\ pc = "responded"
    /\ request.path = "rerun"
    /\ request.code_override = IMPORT_KW \o <<" ">> \o OS_MOD
    /\ raised = SanitizationError(RestrictedMessage)
    /\ response.status = "400"

\* C24: for every completed judging run, on the execute and the rerun paths,
\* the stored and the returned summary have passed_count equal to the number of
\* verdicts with passed = true and failed_count equal to the number of the
\* others, their sum is the number of test cases, and status is "passed"
\* exactly when failed_count is 0.
C24_Summary ==
    (pc = "responded" /\ response.status = "200") =>
        LET n == Cardinality({i \in 1..Len(returned) : returned[i].passed})
            f == Cardinality({i \in 1..Len(returned) : ~returned[i].passed})
            stored == db.execution_results[Len(db.execution_results)]
        IN  /\ Len(db.execution_results) = 2
            /\ response.summary.passed_count = n
            /\ response.summary.failed_count = f
            /\ stored.passed_count = n
            /\ stored.failed_count = f
            /\ n + f = Len(test_cases)
            /\ response.summary.status \in {"passed", "failed"}
            /\ response.summary.status = "passed" <=> f = 0
            /\ stored.status = response.summary.status
            /\ IF request.path = "rerun"
               THEN /\ stored.submission_id = request.submission_id
                    /\ db.submissions[request.submission_id].latest_execution_result_id
                          = Len(db.execution_results)
               ELSE stored.submission_id = Len(db.submissions)

\* C24 witness: a rerun of two cases, one passed and one timed out, answered
\* with the summary failed, 1, 1
C24_Witness ==
    /\ pc = "responded"
    /\ request.path = "rerun"
    /\ response.status = "200"
    /\ Len(returned) = 2
    /\ returned[1].passed
    /\ outcomes[2].kind = "timeout"
    /\ response.summary = [status |-> "failed", passed_count |-> 1, failed_count |-> 1]

\* C24 witness on the execute path: both cases passed
C24_WitnessExecute ==
    /\ pc = "responded"
    /\ request.path = "execute"
    /\ response.summary = [status |-> "passed", passed_count |-> 2, failed_count |-> 0]

====
